---- MODULE Spec2Model ----
(***************************************************************************)
(* Transition engine of the arc-standard dependency parser:                *)
(*   - UD_to_oracle  (gold heads -> SHIFT/LEFTARC/RIGHTARC steps)          *)
(*   - oracle_to_UD  (action tags -> heads)                                *)
(*   - the Transition classes Shift/LeftArc/RightArc over State            *)
(*   - check_transitions (vocabulary validation)                           *)
(*   - build_treebank    (one oracle sequence per tree)                    *)
(*   - all_transitions   (the sorted vocabulary of transition lists)       *)
(*   - two UD_to_oracle / oracle_to_UD runs advanced in any interleaving   *)
(* Python strings are sequences of one-character strings; int() and str()  *)
(* are modelled by StrToInt and IntToStr.                                  *)
(***************************************************************************)
EXTENDS Integers, Sequences, FiniteSets, TLC

VARIABLES
    mode,       \* which entry point is being exercised
    pc,         \* position of the running function
    sentence,   \* UD_to_oracle: the input sentence (token dicts, in order)
    heads,      \* UD_to_oracle: local dict heads
    dependents, \* UD_to_oracle: local defaultdict dependents
    buffer,     \* UD_to_oracle: local list buffer
    stack,      \* UD_to_oracle: local list stack
    done,       \* UD_to_oracle: local set done
    steps,      \* UD_to_oracle: local list steps
    rtokens,    \* oracle_to_UD: argument tokens
    actions,    \* oracle_to_UD: argument actions
    rbuffer,    \* oracle_to_UD: local list buffer
    rstack,     \* oracle_to_UD: local list stack
    arcs,       \* oracle_to_UD: local list arcs
    ai,         \* oracle_to_UD: number of actions the for loop has consumed
    result,     \* oracle_to_UD: returned token list
    st,         \* the State namedtuple being advanced
    train,      \* check_transitions: train_transitions
    other,      \* check_transitions: other_transitions
    vres,       \* check_transitions: outcome
    trees,      \* build_treebank: argument trees
    ti,         \* build_treebank: number of trees the comprehension has consumed
    sequences,  \* build_treebank: the list under construction / returned
    runs,       \* two UD_to_oracle invocations in flight, each with its locals
    transition_lists,  \* all_transitions: argument
    vocabulary  \* all_transitions: returned list

vars == <<mode, pc, sentence, heads, dependents, buffer, stack, done, steps,
          rtokens, actions, rbuffer, rstack, arcs, ai, result,
          st, train, other, vres,
          trees, ti, sequences, runs, transition_lists, vocabulary>>

oracleVars == <<sentence, heads, dependents, buffer, stack, done, steps>>
replayVars == <<rtokens, actions, rbuffer, rstack, arcs, ai, result>>
stateVars  == <<st>>
vocabVars  == <<train, other, vres>>
treebankVars == <<trees, ti, sequences>>
pairVars   == <<runs>>
orderVars  == <<transition_lists, vocabulary>>
extraVars  == <<treebankVars, pairVars, orderVars>>

-----------------------------------------------------------------------------
(* Bounds *)

\* largest number of non-ROOT tokens in a sentence
MaxN == 4

\* longest action sequence handed directly to oracle_to_UD
MaxActs == 5

\* longest other_transitions list handed to check_transitions
MaxOther == 3

\* largest number of trees handed to build_treebank
MaxTrees == 2

\* largest number of non-ROOT tokens in a tree of a treebank
MaxTreeN == 2

\* largest number of non-ROOT tokens of a sentence converted while another
\* conversion is in flight
MaxPairN == 2

\* largest number of transitions in the lists handed to all_transitions
MaxVocab == 3

-----------------------------------------------------------------------------
(* Python values *)

\* Python's None
None == <<"None">>

Digits == <<"0", "1", "2", "3", "4", "5", "6", "7", "8", "9">>

DigitVal(c) == (CHOOSE i \in 1..10 : Digits[i] = c) - 1

\* str(n) for an int n
RECURSIVE IntToStr(_)
IntToStr(n) ==
    IF n < 0 THEN <<"-">> \o IntToStr(0 - n)
    ELSE IF n < 10 THEN <<Digits[n + 1]>>
    ELSE IntToStr(n \div 10) \o <<Digits[(n % 10) + 1]>>

\* int(s) for a decimal string s (optionally signed)
RECURSIVE StrToNat(_)
StrToNat(s) ==
    IF Len(s) = 1 THEN DigitVal(s[1])
    ELSE 10 * StrToNat(SubSeq(s, 1, Len(s) - 1)) + DigitVal(s[Len(s)])

StrToInt(s) ==
    IF s[1] = "-" THEN 0 - StrToNat(Tail(s)) ELSE StrToNat(s)

\* c in s, for a character c and a string s
CharIn(c, s) == \E i \in 1..Len(s) : s[i] = c

\* l.pop(i) for a 1-based position i: the list without that element
PopAt(l, i) == SubSeq(l, 1, i - 1) \o SubSeq(l, i + 1, Len(l))

-----------------------------------------------------------------------------
(* UD_to_oracle: set-up (lines 49-63) *)

\* the synthetic ROOT token, after the int conversion of line 52
RootTok == [id |-> 0, head |-> -1]

\* line 51: multi-word-token ranges and empty nodes are dropped
IsWordTok(t) == ~CharIn("-", t.id) /\ ~CharIn(".", t.id)

WordToks(sent) == SelectSeq(sent, IsWordTok)

\* line 52 with an absent head read as ROOT
ConvTok_AbsentIsRoot(t) ==
    [id |-> StrToInt(t.id),
     head |-> IF t.head # None THEN StrToInt(t.head) ELSE 0]

\* line 52: ids and heads become ints, an absent head becomes -1
ConvTok(t) ==
    [id |-> StrToInt(t.id),
     head |-> IF t.head # None THEN StrToInt(t.head) ELSE -1]

\* lines 50-52
Tokens(sent) ==
    <<RootTok>> \o [i \in 1..Len(WordToks(sent)) |-> ConvTok(WordToks(sent)[i])]

TokIds(toks) == {toks[i].id : i \in 1..Len(toks)}

\* line 54: heads = {id: head} over the non-ROOT tokens
HeadsOf(toks) ==
    [d \in (TokIds(toks) \ {0}) |->
        LET i == CHOOSE j \in 1..Len(toks) :
                    /\ toks[j].id = d
                    /\ \A k \in (j + 1)..Len(toks) : toks[k].id # d
        IN toks[i].head]

\* lines 55-58: dependents[h] lists, in order, the ids of the tokens whose
\* head is h; tokens without a head (-1) are left out
DependentsOf(toks) ==
    [h \in {toks[i].head : i \in 1..Len(toks)} \ {-1} |->
        LET kids == SelectSeq(toks, LAMBDA t : t.head = h)
        IN [i \in 1..Len(kids) |-> kids[i].id]]

\* dependents[h] on the defaultdict: the empty list when h has no entry
DependentsGet(deps, h) == IF h \in DOMAIN deps THEN deps[h] ELSE <<>>

\* line 60
InitBuffer(toks) ==
    LET words == SelectSeq(toks, LAMBDA t : t.id # 0)
    IN [i \in 1..Len(words) |-> words[i].id]

-----------------------------------------------------------------------------
(* UD_to_oracle: the step functions (lines 24-37) *)

Step(b, s, a) == <<b, s, a>>

\* Shift taking the last buffer element: buffer.pop() for buffer.pop(0)
Shift_PopsLast(b, s, stp, dn) ==
    [buffer |-> SubSeq(b, 1, Len(b) - 1),
     stack |-> Append(s, b[Len(b)]),
     steps |-> Append(stp, Step(b, s, "SHIFT")),
     done |-> dn]

\* the values a step function leaves in its four list/set arguments
Shift(b, s, stp, dn) ==
    [buffer |-> Tail(b),
     stack |-> Append(s, Head(b)),
     steps |-> Append(stp, Step(b, s, "SHIFT")),
     done |-> dn]

\* LeftArc removing the top of the stack while marking the one below done
LeftArc_PopsTop(b, s, stp, dn) ==
    [buffer |-> b,
     stack |-> PopAt(s, Len(s)),
     steps |-> Append(stp, Step(b, s, "LEFTARC")),
     done |-> dn \cup {s[Len(s) - 1]}]

LeftArc(b, s, stp, dn) ==
    [buffer |-> b,
     stack |-> PopAt(s, Len(s) - 1),
     steps |-> Append(stp, Step(b, s, "LEFTARC")),
     done |-> dn \cup {s[Len(s) - 1]}]

RightArc(b, s, stp, dn) ==
    [buffer |-> b,
     stack |-> PopAt(s, Len(s)),
     steps |-> Append(stp, Step(b, s, "RIGHTARC")),
     done |-> dn \cup {s[Len(s)]}]

\* is_done that takes every subtree for closed
is_done_Always(dependent, deps, dn) == TRUE

is_done(dependent, deps, dn) ==
    LET ds == DependentsGet(deps, dependent)
    IN \A i \in 1..Len(ds) : ds[i] \in dn

\* can_LeftArc testing the arc the other way round: the top's head is the
\* second-from-top
can_LeftArc_Swapped(hds, deps, s, dn) ==
    IF Len(s) < 2 THEN FALSE
    ELSE LET s1 == s[Len(s) - 1]
             s0 == s[Len(s)]
         IN /\ s0 \in DOMAIN hds
            /\ hds[s0] = s1
            /\ is_done(s0, deps, dn)

\* lines 65-69 (heads.get(s1) == s0 is false when s1 has no entry)
can_LeftArc(hds, deps, s, dn) ==
    IF Len(s) < 2 THEN FALSE
    ELSE LET s1 == s[Len(s) - 1]
             s0 == s[Len(s)]
         IN /\ s1 \in DOMAIN hds
            /\ hds[s1] = s0
            /\ is_done(s1, deps, dn)

\* can_RightArc without the is_done test
can_RightArc_NoDone(hds, deps, s, dn) ==
    IF Len(s) < 2 THEN FALSE
    ELSE LET s1 == s[Len(s) - 1]
             s0 == s[Len(s)]
         IN /\ s0 \in DOMAIN hds
            /\ hds[s0] = s1

\* lines 71-75
can_RightArc(hds, deps, s, dn) ==
    IF Len(s) < 2 THEN FALSE
    ELSE LET s1 == s[Len(s) - 1]
             s0 == s[Len(s)]
         IN /\ s0 \in DOMAIN hds
            /\ hds[s0] = s1
            /\ is_done(s0, deps, dn)

\* the loop running on the buffer alone: while buffer
LoopCond_BufferOnly(b, s) == b # <<>>

\* line 77
LoopCond(b, s) == b # <<>> \/ Len(s) > 1

-----------------------------------------------------------------------------
(* oracle_to_UD (lines 89-136) *)

\* lines 103-106: ROOT is prepended and every id becomes an int
ReTokens(toks) ==
    <<[id |-> 0]>> \o [i \in 1..Len(toks) |-> [id |-> StrToInt(toks[i].id)]]

\* line 108
ReInitBuffer(toks) ==
    LET words == SelectSeq(ReTokens(toks), LAMBDA t : t.id # 0)
    IN [i \in 1..Len(words) |-> words[i].id]

\* the tags the for loop recognises (lines 113, 115, 120)
IsShiftTag(a) == a = "SHIFT"
IsLeftArcTag(a) == a = "LEFTARC"
IsRightArcTag(a) == a = "RIGHTARC"

\* LEFTARC with head and dependent exchanged
ReLeftArcArc_Swapped(s) == <<s[Len(s) - 1], s[Len(s)]>>

\* LEFTARC removing the top: stack.pop() for stack.pop(-2)
ReLeftArcStack_PopsTop(s) == PopAt(s, Len(s))

\* lines 116-119: the arc (head, dep) and the stack after stack.pop(-2)
ReLeftArcArc(s) == <<s[Len(s)], s[Len(s) - 1]>>
ReLeftArcStack(s) == PopAt(s, Len(s) - 1)

\* lines 121-124: the arc (head, dep) and the stack after stack.pop()
\* RIGHTARC recording its arc the other way round: the top as head
ReRightArcArc_Swapped(s) == <<s[Len(s)], s[Len(s) - 1]>>

\* RIGHTARC that records its arc and leaves the stack as it is
ReRightArcStack_Keeps(s) == s

ReRightArcArc(s) == <<s[Len(s) - 1], s[Len(s)]>>
ReRightArcStack(s) == PopAt(s, Len(s))

\* line 129: heads = {dep: head for head, dep in arcs}; a later arc overwrites
ArcDeps(as) == {as[i][2] : i \in 1..Len(as)}

ArcHeads(as) ==
    [d \in ArcDeps(as) |->
        LET i == CHOOSE j \in 1..Len(as) :
                    /\ as[j][2] = d
                    /\ \A k \in (j + 1)..Len(as) : as[k][2] # d
        IN as[i][1]]

\* heads.get(id, id): a token without an arc left as its own head
HeadsGet_Self(as, id) == IF id \in ArcDeps(as) THEN ArcHeads(as)[id] ELSE id

\* line 133: heads.get(id, 0)
HeadsGet(as, id) == IF id \in ArcDeps(as) THEN ArcHeads(as)[id] ELSE 0

\* lines 130-136: ROOT is skipped and dropped, head and id become strings
AssignHeads(toks, as) ==
    LET all == ReTokens(toks)
    IN [i \in 1..(Len(all) - 1) |->
            [id |-> IntToStr(all[i + 1].id),
             head |-> IntToStr(HeadsGet(as, all[i + 1].id))]]

-----------------------------------------------------------------------------
(* Inputs *)

\* the head fields a token of an N-token sentence may carry: absent, ROOT or
\* any token id (the token's own id included)
HeadFields(n) == {None} \cup {IntToStr(k) : k \in 0..n}

\* a multi-word-token range line "1-2", as the CoNLL reader passes it on
RangeTok == [id |-> <<"1", "-", "2">>, head |-> None]

\* a sentence of n words with dense ids 1..n and head fields hs, bare or
\* with a range line in front of the first word
Sentence(n, hs, ranged) ==
    (IF ranged THEN <<RangeTok>> ELSE <<>>)
    \o [i \in 1..n |-> [id |-> IntToStr(i), head |-> hs[i]]]

\* token lists handed directly to oracle_to_UD: 'id' only
PlainTokens(n) == [i \in 1..n |-> [id |-> IntToStr(i)]]

\* tags an action list may hold: the three the reconstructor knows and the
\* name Shift.__repr__ gives
Tags == {"SHIFT", "LEFTARC", "RIGHTARC", "Shift"}

\* values of the variables a scenario does not use
Idle == <<>>

OracleIdle ==
    /\ sentence = Idle /\ heads = Idle /\ dependents = Idle
    /\ buffer = Idle /\ stack = Idle
    /\ done = {} /\ steps = Idle

ReplayIdle ==
    /\ rtokens = Idle /\ actions = Idle /\ rbuffer = Idle /\ rstack = Idle
    /\ arcs = Idle /\ ai = 0 /\ result = Idle

StateIdle == st = Idle

VocabIdle == train = Idle /\ other = Idle /\ vres = Idle

TreebankIdle == trees = Idle /\ ti = 0 /\ sequences = Idle

PairIdle == runs = Idle

OrderIdle == transition_lists = Idle /\ vocabulary = Idle

ExtraIdle == TreebankIdle /\ PairIdle /\ OrderIdle

-----------------------------------------------------------------------------
(* UD_to_oracle followed by oracle_to_UD, and oracle_to_UD on its own *)

\* UD_to_oracle about to enter its loop (lines 49-63 done)
InitRoundTrip ==
    /\ mode = "roundtrip"
    /\ pc = "ud_loop"
    /\ \E n \in 0..MaxN : \E hs \in [1..n -> HeadFields(n)] :
          \E ranged \in (IF n = 2 THEN BOOLEAN ELSE {FALSE}) :
             sentence = Sentence(n, hs, ranged)
    /\ \E tokens \in {Tokens(sentence)} :
          /\ heads = HeadsOf(tokens)
          /\ dependents = DependentsOf(tokens)
          /\ buffer = InitBuffer(tokens)
    /\ stack = <<0>>
    /\ done = {}
    /\ steps = <<>>
    /\ ReplayIdle /\ StateIdle /\ VocabIdle /\ ExtraIdle

InitReplay ==
    /\ mode = "replay"
    /\ pc = "re_call"
    /\ \E n \in 0..MaxN : rtokens = PlainTokens(n)
    /\ \E k \in 0..MaxActs : actions \in [1..k -> Tags]
    /\ rbuffer = Idle /\ rstack = Idle /\ arcs = Idle /\ ai = 0 /\ result = Idle
    /\ OracleIdle /\ StateIdle /\ VocabIdle /\ ExtraIdle

Init == InitRoundTrip \/ InitReplay

OracleApply(r) ==
    /\ buffer' = r.buffer
    /\ stack' = r.stack
    /\ steps' = r.steps
    /\ done' = r.done
    /\ UNCHANGED <<mode, pc, sentence, heads, dependents,
                   replayVars, stateVars, vocabVars, extraVars>>

\* lines 77-79
OracleLeftArc ==
    /\ pc = "ud_loop"
    /\ LoopCond(buffer, stack)
    /\ can_LeftArc(heads, dependents, stack, done)
    /\ OracleApply(LeftArc(buffer, stack, steps, done))

\* lines 77, 80-81
OracleRightArc ==
    /\ pc = "ud_loop"
    /\ LoopCond(buffer, stack)
    /\ ~can_LeftArc(heads, dependents, stack, done)
    /\ can_RightArc(heads, dependents, stack, done)
    /\ OracleApply(RightArc(buffer, stack, steps, done))

\* Shift tried first: taken whenever the buffer has a token
OracleShift_First ==
    /\ pc = "ud_loop"
    /\ LoopCond(buffer, stack)
    /\ buffer # <<>>
    /\ OracleApply(Shift(buffer, stack, steps, done))

\* lines 77, 82-83
OracleShift ==
    /\ pc = "ud_loop"
    /\ LoopCond(buffer, stack)
    /\ ~can_LeftArc(heads, dependents, stack, done)
    /\ ~can_RightArc(heads, dependents, stack, done)
    /\ buffer # <<>>
    /\ OracleApply(Shift(buffer, stack, steps, done))

\* lines 77, 84-85
OracleRaise ==
    /\ pc = "ud_loop"
    /\ LoopCond(buffer, stack)
    /\ ~can_LeftArc(heads, dependents, stack, done)
    /\ ~can_RightArc(heads, dependents, stack, done)
    /\ buffer = <<>>
    /\ pc' = "ud_raised"
    /\ UNCHANGED <<mode, oracleVars, replayVars, stateVars, vocabVars, extraVars>>

\* lines 77, 87
OracleReturn ==
    /\ pc = "ud_loop"
    /\ ~LoopCond(buffer, stack)
    /\ pc' = "ud_returned"
    /\ UNCHANGED <<mode, oracleVars, replayVars, stateVars, vocabVars, extraVars>>

\* the action tags of the returned steps
StepTags(stp) == [i \in 1..Len(stp) |-> stp[i][3]]

\* the returned steps are replayed on the sentence's word tokens
RoundTrip ==
    /\ pc = "ud_returned"
    /\ rtokens' = [i \in 1..Len(WordToks(sentence)) |-> [id |-> WordToks(sentence)[i].id]]
    /\ actions' = StepTags(steps)
    /\ pc' = "re_call"
    /\ UNCHANGED <<mode, oracleVars, rbuffer, rstack, arcs, ai, result,
                   stateVars, vocabVars, extraVars>>

\* lines 102-110
oracle_to_UD_begin ==
    /\ pc = "re_call"
    /\ rbuffer' = ReInitBuffer(rtokens)
    /\ rstack' = <<0>>
    /\ arcs' = <<>>
    /\ ai' = 0
    /\ pc' = "re_loop"
    /\ UNCHANGED <<mode, oracleVars, rtokens, actions, result, stateVars, vocabVars, extraVars>>

NextTag == actions[ai + 1]

\* lines 113-114
ReplayShift ==
    /\ pc = "re_loop" /\ ai < Len(actions)
    /\ IsShiftTag(NextTag)
    /\ rbuffer # <<>>
    /\ rstack' = Append(rstack, Head(rbuffer))
    /\ rbuffer' = Tail(rbuffer)
    /\ ai' = ai + 1
    /\ UNCHANGED <<mode, pc, oracleVars, rtokens, actions, arcs, result,
                   stateVars, vocabVars, extraVars>>

\* lines 115-119
ReplayLeftArc ==
    /\ pc = "re_loop" /\ ai < Len(actions)
    /\ ~IsShiftTag(NextTag) /\ IsLeftArcTag(NextTag)
    /\ Len(rstack) >= 2
    /\ arcs' = Append(arcs, ReLeftArcArc(rstack))
    /\ rstack' = ReLeftArcStack(rstack)
    /\ ai' = ai + 1
    /\ UNCHANGED <<mode, pc, oracleVars, rtokens, actions, rbuffer, result,
                   stateVars, vocabVars, extraVars>>

\* lines 120-124
ReplayRightArc ==
    /\ pc = "re_loop" /\ ai < Len(actions)
    /\ ~IsShiftTag(NextTag) /\ ~IsLeftArcTag(NextTag) /\ IsRightArcTag(NextTag)
    /\ Len(rstack) >= 2
    /\ arcs' = Append(arcs, ReRightArcArc(rstack))
    /\ rstack' = ReRightArcStack(rstack)
    /\ ai' = ai + 1
    /\ UNCHANGED <<mode, pc, oracleVars, rtokens, actions, rbuffer, result,
                   stateVars, vocabVars, extraVars>>

\* buffer.pop(0) on an empty list (114), stack[-2] on a one-element list
\* (117, 121): Python raises IndexError and the call ends
ReplayIndexError ==
    /\ pc = "re_loop" /\ ai < Len(actions)
    /\ \/ IsShiftTag(NextTag) /\ rbuffer = <<>>
       \/ ~IsShiftTag(NextTag)
          /\ (IsLeftArcTag(NextTag) \/ IsRightArcTag(NextTag))
          /\ Len(rstack) < 2
    /\ pc' = "re_index_error"
    /\ UNCHANGED <<mode, oracleVars, replayVars, stateVars, vocabVars, extraVars>>

\* an unrecognised tag skipped instead of raising
ReplayInvalid_Skips ==
    /\ pc = "re_loop" /\ ai < Len(actions)
    /\ ~IsShiftTag(NextTag) /\ ~IsLeftArcTag(NextTag) /\ ~IsRightArcTag(NextTag)
    /\ ai' = ai + 1
    /\ UNCHANGED <<mode, pc, oracleVars, rtokens, actions, rbuffer, rstack, arcs,
                   result, stateVars, vocabVars, extraVars>>

\* lines 125-126
ReplayInvalid ==
    /\ pc = "re_loop" /\ ai < Len(actions)
    /\ ~IsShiftTag(NextTag) /\ ~IsLeftArcTag(NextTag) /\ ~IsRightArcTag(NextTag)
    /\ pc' = "re_invalid"
    /\ UNCHANGED <<mode, oracleVars, replayVars, stateVars, vocabVars, extraVars>>

\* lines 128-136
ReplayReturn ==
    /\ pc = "re_loop" /\ ai = Len(actions)
    /\ result' = AssignHeads(rtokens, arcs)
    /\ pc' = "re_returned"
    /\ UNCHANGED <<mode, oracleVars, rtokens, actions, rbuffer, rstack, arcs, ai,
                   stateVars, vocabVars, extraVars>>

Next ==
    \/ OracleLeftArc
    \/ OracleRightArc
    \/ OracleShift
    \/ OracleRaise
    \/ OracleReturn
    \/ RoundTrip
    \/ oracle_to_UD_begin
    \/ ReplayShift
    \/ ReplayLeftArc
    \/ ReplayRightArc
    \/ ReplayIndexError
    \/ ReplayInvalid
    \/ ReplayReturn

Spec == Init /\ [][Next]_vars

-----------------------------------------------------------------------------
(* State (state_depparse.py) and the Transition classes (parse_transitions.py) *)

\* the namedtuple's fields (lines 3-5)
StateFields ==
    {"word_queue", "transitions", "constituents", "stacks", "created_arcs",
     "gold_tree", "gold_sequence", "sentence_length", "word_position", "score"}

\* the methods and properties the class body defines (lines 23-109)
StateMethods ==
    {"empty_word_queue", "empty_transitions", "has_one_constituent",
     "empty_constituents", "num_constituents", "empty_stacks",
     "num_transitions", "num_stacks", "get_word", "finished",
     "all_transitions", "all_constituents", "all_stacks", "all_buffers",
     "all_created_arcs", "all_words", "to_string", "__str__"}

\* attribute lookup on a State succeeds for these names only
HasAttr(name) == name \in StateFields \cup StateMethods

\* a stack with its sentinel: bottom first, the sentinel at position 1
Sentinel == -1
TS_new == <<Sentinel>>
TS_push(ts, v) == Append(ts, v)
TS_length(ts) == Len(ts)

\* lines 23-26
empty_word_queue(state) == state.word_position = state.sentence_length

\* lines 53-55
num_stacks(state) == TS_length(state.stacks) - 1

\* state.<name>() for a method taking no argument: "AttributeError" when the
\* class has no such attribute, else "True" / "False"
CallMethod(state, name) ==
    IF ~HasAttr(name) THEN "AttributeError"
    ELSE IF name = "empty_word_queue"
         THEN (IF empty_word_queue(state) THEN "True" ELSE "False")
    ELSE "TypeError"

\* the empty_stacks property (lines 44-46): it reads self.stack
empty_stacks(state) ==
    IF ~HasAttr("stack") THEN "AttributeError"
    ELSE IF TS_length(state["stack"]) = 0 THEN "True" ELSE "False"

\* State.finished (lines 63-64): 'and' gives its left operand when that is
\* false and otherwise evaluates and gives its right operand
finished(state) ==
    IF CallMethod(state, "empty_word_queue") # "True"
    THEN CallMethod(state, "empty_word_queue")
    ELSE empty_stacks(state)

\* the attributes __str__ reads, in order (lines 115-123)
StrReads ==
    <<"word_queue", "transitions", "stacks", "created_arcs", "gold_arcs",
      "gold_sequence", "sentence_length", "word_position", "score">>

\* str(state), as print(state) asks for it (lines 109-125): the first read
\* of a missing attribute raises AttributeError; with every read served the
\* method returns None (line 125), which str() rejects with TypeError
State_str(state) ==
    IF \E i \in 1..Len(StrReads) : ~HasAttr(StrReads[i])
    THEN "AttributeError"
    ELSE "TypeError"

IsError(v) == v \in {"AttributeError", "TypeError", "IndexError"}

\* Shift.is_legal (parse_transitions.py 192-200)
Shift_is_legal(state) ==
    LET empty == CallMethod(state, "is_empty_buffer")
    IN IF IsError(empty) THEN empty
       ELSE IF empty = "True" THEN "False"
       ELSE IF IsError(State_str(state)) THEN State_str(state)
       ELSE "True"

\* LeftArc.is_legal (237-243): print(state), then True or a bare fall-through
LeftArc_is_legal(state) ==
    IF IsError(State_str(state)) THEN State_str(state)
    ELSE IF num_stacks(state) >= 2 THEN "True"
    ELSE "None"

\* RightArc.is_legal (280-286)
RightArc_is_legal(state) ==
    IF IsError(State_str(state)) THEN State_str(state)
    ELSE IF num_stacks(state) >= 2 THEN "True"
    ELSE "None"

\* Shift.update_state (180-190): the returned tuple
\* Shift.update_state handing back the position it was given
Shift_update_state_NoAdvance(state) ==
    LET new_constituent == state.word_queue[state.word_position + 1]
    IN <<state.word_position, state.constituents, new_constituent,
         state.stacks, state.word_position, state.created_arcs>>

Shift_update_state(state) ==
    LET new_constituent == state.word_queue[state.word_position + 1]
    IN <<state.word_position + 1, state.constituents, new_constituent,
         state.stacks, state.word_position, state.created_arcs>>

\* an instance of one of the Transition classes
NewTransition(cls) == [cls |-> cls]

\* None where a transition is expected
NoTransition == [cls |-> "NoneType"]

\* Transition.from_repr (143-176): a new instance, or None by fall-through

from_repr(desc) ==
    IF desc = "Shift" THEN NewTransition("Shift")
    ELSE IF desc = "LeftArc" THEN NewTransition("LeftArc")
    ELSE IF desc = "RightArc" THEN NewTransition("RightArc")
    ELSE NoTransition

\* __eq__ of Shift, LeftArc, RightArc (208-213, 251-256, 294-299): true for
\* the same object and for any instance of the same class
TransEq(self, oth) == oth.cls = self.cls

\* Transition.components (105-112)
components(self) == <<self>>

\* the State a sentence of n words starts from: ROOT is word 0 and is on the
\* stack, the cursor is on word 1
InitialState(n) ==
    [word_queue |-> [i \in 1..(n + 1) |-> i - 1],
     transitions |-> TS_new,
     constituents |-> TS_push(TS_new, 0),
     stacks |-> TS_push(TS_new, 0),
     created_arcs |-> <<>>,
     gold_tree |-> None,
     gold_sequence |-> None,
     sentence_length |-> n + 1,
     word_position |-> 1,
     score |-> 0]

\* bulk_apply for one state: the State built from an update_state tuple
ApplyUpdate(state, trans, u) ==
    [state EXCEPT
        !.word_position = u[1],
        !.constituents = TS_push(u[2], u[3]),
        !.stacks = TS_push(u[4], u[5]),
        !.created_arcs = u[6],
        !.transitions = TS_push(state.transitions, trans)]

\* ts[k] on a stack: its k-th node from the top, the top being ts[0]; a
\* node stands for the value it carries
TS_at(ts, k) == ts[Len(ts) - k]

\* ts[k:] on a stack: what is below its k topmost nodes
TS_from(ts, k) == SubSeq(ts, 1, Len(ts) - k)

\* LeftArc.update_state (parse_transitions.py 219-234) raises IndexError:
\* state.constituents[1] / state.stacks[1] need 2 nodes (lines 228-229) and
\* line 231 indexes the already sliced constituents at 1
LeftArc_update_raises(state) ==
    \/ Len(state.constituents) < 2
    \/ Len(state.stacks) < 2
    \/ Len(TS_from(state.constituents, 2)) < 2

\* LeftArc.update_state (parse_transitions.py 219-234): the tuple returned
LeftArc_update_state(state) ==
    LET constituents == TS_from(state.constituents, 2)
        stacks == TS_from(state.stacks, 2)
        new_constituent == TS_at(state.constituents, 1)
        new_stacks == TS_at(state.stacks, 1)
        new_arc == <<TS_at(constituents, 1), TS_at(constituents, 0)>>
    IN <<state.word_position, constituents, new_constituent, stacks,
         new_stacks, Append(state.created_arcs, new_arc)>>

\* RightArc.update_state (parse_transitions.py 263-277) raises IndexError:
\* state.constituents[0] / state.stacks[0] need a node (lines 271-272) and
\* line 274 indexes the already sliced constituents at 0 and 1
RightArc_update_raises(state) ==
    \/ Len(state.constituents) < 1
    \/ Len(state.stacks) < 1
    \/ Len(TS_from(state.constituents, 2)) < 2

\* RightArc.update_state (parse_transitions.py 263-277): the tuple returned
RightArc_update_state(state) ==
    LET constituents == TS_from(state.constituents, 2)
        stacks == TS_from(state.stacks, 2)
        new_constituent == TS_at(state.constituents, 0)
        new_stacks == TS_at(state.stacks, 0)
        new_arc == <<TS_at(constituents, 0), TS_at(constituents, 1)>>
    IN <<state.word_position, constituents, new_constituent, stacks,
         new_stacks, Append(state.created_arcs, new_arc)>>

InitState ==
    /\ mode = "state"
    /\ pc = "state"
    /\ \E n \in 0..MaxN : st = InitialState(n)
    /\ OracleIdle /\ ReplayIdle /\ VocabIdle /\ ExtraIdle

StateShift ==
    /\ pc = "state"
    /\ ~empty_word_queue(st)
    /\ st' = ApplyUpdate(st, NewTransition("Shift"), Shift_update_state(st))
    /\ UNCHANGED <<mode, pc, oracleVars, replayVars, vocabVars, extraVars>>

\* LeftArc applied where its legality test (line 241) passes and its
\* update_state returns
StateLeftArc ==
    /\ pc = "state"
    /\ num_stacks(st) >= 2
    /\ ~LeftArc_update_raises(st)
    /\ st' = ApplyUpdate(st, NewTransition("LeftArc"), LeftArc_update_state(st))
    /\ UNCHANGED <<mode, pc, oracleVars, replayVars, vocabVars, extraVars>>

\* RightArc applied where its legality test (line 284) passes and its
\* update_state returns
StateRightArc ==
    /\ pc = "state"
    /\ num_stacks(st) >= 2
    /\ ~RightArc_update_raises(st)
    /\ st' = ApplyUpdate(st, NewTransition("RightArc"), RightArc_update_state(st))
    /\ UNCHANGED <<mode, pc, oracleVars, replayVars, vocabVars, extraVars>>

NextState == StateShift \/ StateLeftArc \/ StateRightArc

SpecState == InitState /\ [][NextState]_vars

-----------------------------------------------------------------------------
(* check_transitions (parse_transitions.py 304-323) *)

\* trans in transitions, by __eq__
TransIn(trans, transitions) == \E t \in transitions : TransEq(t, trans)

\* the component test with its negation lost
UnknownComponent_Known(trans, train_transitions) ==
    \E i \in 1..Len(components(trans)) :
        TransIn(components(trans)[i], train_transitions)

\* lines 318-320: some component of trans is not in the train set
UnknownComponent(trans, train_transitions) ==
    \E i \in 1..Len(components(trans)) :
        ~TransIn(components(trans)[i], train_transitions)

\* the for loop from element i on (lines 316-321), then lines 322-323
RECURSIVE CheckLoop(_, _, _, _)
CheckLoop(train_transitions, other_transitions, i, unknown_transitions) ==
    IF i > Len(other_transitions)
    THEN [raised |-> FALSE,
          warned |-> Cardinality(unknown_transitions) > 0,
          unknown |-> unknown_transitions,
          train |-> train_transitions]
    ELSE LET trans == other_transitions[i]
         IN IF ~TransIn(trans, train_transitions)
            THEN IF UnknownComponent(trans, train_transitions)
                 THEN [raised |-> TRUE,
                       warned |-> FALSE,
                       unknown |-> unknown_transitions,
                       train |-> train_transitions]
                 ELSE CheckLoop(train_transitions, other_transitions, i + 1,
                                unknown_transitions \cup {trans})
            ELSE CheckLoop(train_transitions, other_transitions, i + 1,
                           unknown_transitions)

check_transitions(train_transitions, other_transitions) ==
    CheckLoop(train_transitions, other_transitions, 1, {})

TransitionNames == {"Shift", "LeftArc", "RightArc"}
Transitions == {NewTransition(c) : c \in TransitionNames}

InitVocab ==
    /\ mode = "vocab"
    /\ pc = "check_call"
    /\ train \in SUBSET Transitions
    /\ \E k \in 0..MaxOther : other \in [1..k -> Transitions]
    /\ vres = Idle
    /\ OracleIdle /\ ReplayIdle /\ StateIdle /\ ExtraIdle

CheckTransitions ==
    /\ pc = "check_call"
    /\ vres' = check_transitions(train, other)
    /\ pc' = IF vres'.raised THEN "check_raised" ELSE "check_returned"
    /\ UNCHANGED <<mode, oracleVars, replayVars, stateVars, train, other, extraVars>>

NextVocab == CheckTransitions

SpecVocab == InitVocab /\ [][NextVocab]_vars

-----------------------------------------------------------------------------
(* build_sequence / build_treebank (transition_sequence.py 141-154), *)
(* called with the default reverse=False                              *)

\* the trees a treebank may hold
TreeSet ==
    UNION {{Sentence(n, hs, FALSE) : hs \in [1..n -> HeadFields(n)]} :
           n \in 0..MaxTreeN}

InitTreebank ==
    /\ mode = "treebank"
    /\ pc = "tb_loop"
    /\ \E k \in 0..MaxTrees : trees \in [1..k -> TreeSet]
    /\ ti = 0
    /\ sequences = <<>>
    /\ OracleIdle /\ ReplayIdle /\ StateIdle /\ VocabIdle /\ PairIdle /\ OrderIdle

\* line 154: the comprehension takes the next tree and calls
\* build_sequence(tree), which calls UD_to_oracle(tree) (line 145); the call
\* runs its set-up (lines 49-63)
TreebankCall ==
    /\ mode = "treebank"
    /\ pc = "tb_loop"
    /\ ti < Len(trees)
    /\ sentence' = trees[ti + 1]
    /\ \E tokens \in {Tokens(trees[ti + 1])} :
          /\ heads' = HeadsOf(tokens)
          /\ dependents' = DependentsOf(tokens)
          /\ buffer' = InitBuffer(tokens)
    /\ stack' = <<0>>
    /\ done' = {}
    /\ steps' = <<>>
    /\ pc' = "ud_loop"
    /\ UNCHANGED <<mode, replayVars, stateVars, vocabVars, treebankVars,
                   pairVars, orderVars>>

\* line 154: the value UD_to_oracle returned becomes the next element
TreebankCollect ==
    /\ mode = "treebank"
    /\ pc = "ud_returned"
    /\ sequences' = Append(sequences, steps)
    /\ ti' = ti + 1
    /\ pc' = "tb_loop"
    /\ UNCHANGED <<mode, oracleVars, replayVars, stateVars, vocabVars, trees,
                   pairVars, orderVars>>

\* lines 145, 154: neither build_sequence nor the comprehension has a
\* try/except, so the ValueError of UD_to_oracle leaves build_treebank; the
\* list under construction is dropped with the frame
TreebankRaise ==
    /\ mode = "treebank"
    /\ pc = "ud_raised"
    /\ sequences' = Idle
    /\ pc' = "tb_raised"
    /\ UNCHANGED <<mode, oracleVars, replayVars, stateVars, vocabVars, trees, ti,
                   pairVars, orderVars>>

\* line 154: the comprehension is exhausted and the list is returned
TreebankReturn ==
    /\ mode = "treebank"
    /\ pc = "tb_loop"
    /\ ti = Len(trees)
    /\ pc' = "tb_returned"
    /\ UNCHANGED <<mode, oracleVars, replayVars, stateVars, vocabVars,
                   treebankVars, pairVars, orderVars>>

NextTreebank ==
    \/ TreebankCall
    \/ OracleLeftArc
    \/ OracleRightArc
    \/ OracleShift
    \/ OracleRaise
    \/ OracleReturn
    \/ TreebankCollect
    \/ TreebankRaise
    \/ TreebankReturn

SpecTreebank == InitTreebank /\ [][NextTreebank]_vars

-----------------------------------------------------------------------------
(* Two invocations of UD_to_oracle in flight at once (two hypotheses of a  *)
(* beam, two sentences of a batch): each has the locals of its own call    *)

\* the while loop of UD_to_oracle run to its end on the given locals
\* (lines 77-87): the steps returned, or those recorded when it raised
RECURSIVE OracleRun(_, _, _, _, _, _)
OracleRun(hds, deps, b, s, stp, dn) ==
    IF ~LoopCond(b, s) THEN [steps |-> stp, pc |-> "ud_returned"]
    ELSE IF can_LeftArc(hds, deps, s, dn)
    THEN OracleRun(hds, deps, LeftArc(b, s, stp, dn).buffer,
                   LeftArc(b, s, stp, dn).stack, LeftArc(b, s, stp, dn).steps,
                   LeftArc(b, s, stp, dn).done)
    ELSE IF can_RightArc(hds, deps, s, dn)
    THEN OracleRun(hds, deps, RightArc(b, s, stp, dn).buffer,
                   RightArc(b, s, stp, dn).stack, RightArc(b, s, stp, dn).steps,
                   RightArc(b, s, stp, dn).done)
    ELSE IF b # <<>>
    THEN OracleRun(hds, deps, Shift(b, s, stp, dn).buffer,
                   Shift(b, s, stp, dn).stack, Shift(b, s, stp, dn).steps,
                   Shift(b, s, stp, dn).done)
    ELSE [steps |-> stp, pc |-> "ud_raised"]

\* the for loop of oracle_to_UD run to its end (lines 112-126): the arcs
\* recorded and how the loop ended
RECURSIVE ReplayRun(_, _, _, _, _)
ReplayRun(acts, k, b, s, as) ==
    IF k = Len(acts) THEN [arcs |-> as, pc |-> "re_returned"]
    ELSE IF IsShiftTag(acts[k + 1])
    THEN IF b = <<>> THEN [arcs |-> as, pc |-> "re_index_error"]
         ELSE ReplayRun(acts, k + 1, Tail(b), Append(s, Head(b)), as)
    ELSE IF IsLeftArcTag(acts[k + 1])
    THEN IF Len(s) < 2 THEN [arcs |-> as, pc |-> "re_index_error"]
         ELSE ReplayRun(acts, k + 1, b, ReLeftArcStack(s),
                        Append(as, ReLeftArcArc(s)))
    ELSE IF IsRightArcTag(acts[k + 1])
    THEN IF Len(s) < 2 THEN [arcs |-> as, pc |-> "re_index_error"]
         ELSE ReplayRun(acts, k + 1, b, ReRightArcStack(s),
                        Append(as, ReRightArcArc(s)))
    ELSE [arcs |-> as, pc |-> "re_invalid"]

\* the word tokens of a sentence as oracle_to_UD is handed them: 'id' only
IdTokens(sent) ==
    [i \in 1..Len(WordToks(sent)) |-> [id |-> WordToks(sent)[i].id]]

\* UD_to_oracle on a sentence and oracle_to_UD on what it returns, with
\* nothing else running: the steps, the arcs, the heads and how it ended
Alone(sent) ==
    LET tokens == Tokens(sent)
        o == OracleRun(HeadsOf(tokens), DependentsOf(tokens),
                       InitBuffer(tokens), <<0>>, <<>>, {})
        r == ReplayRun(StepTags(o.steps), 0, ReInitBuffer(IdTokens(sent)),
                       <<0>>, <<>>)
    IN IF o.pc = "ud_raised"
       THEN [steps |-> o.steps, arcs |-> Idle, result |-> Idle, pc |-> o.pc]
       ELSE [steps |-> o.steps, arcs |-> r.arcs,
             result |-> IF r.pc = "re_returned"
                        THEN AssignHeads(IdTokens(sent), r.arcs) ELSE Idle,
             pc |-> r.pc]

\* the locals of one call of UD_to_oracle after its set-up (lines 49-63),
\* those of the call of oracle_to_UD that follows it, not yet made, and what
\* the two give alone
NewRun(sent) ==
    LET tokens == Tokens(sent)
    IN [sentence |-> sent, heads |-> HeadsOf(tokens),
        dependents |-> DependentsOf(tokens),
        buffer |-> InitBuffer(tokens), stack |-> <<0>>, done |-> {},
        steps |-> <<>>, pc |-> "ud_loop",
        rtokens |-> Idle, actions |-> Idle, rbuffer |-> Idle, rstack |-> Idle,
        arcs |-> Idle, ai |-> 0, result |-> Idle,
        alone |-> Alone(sent)]

\* sentences whose every token carries a head field: ROOT or a token id
PairSentences ==
    UNION {{Sentence(n, hs, FALSE) : hs \in [1..n -> HeadFields(n) \ {None}]} :
           n \in 0..MaxPairN}

PairRuns == {NewRun(sent) : sent \in PairSentences}

InitPair ==
    /\ mode = "pair"
    /\ pc = "pair"
    /\ runs \in [1..2 -> PairRuns]
    /\ OracleIdle /\ ReplayIdle /\ StateIdle /\ VocabIdle
    /\ TreebankIdle /\ OrderIdle

\* a module-level done set: what one call marks done, the other sees
PairApply_SharedDone(i, r) ==
    /\ runs' = [j \in 1..2 |->
                  IF j = i
                  THEN [runs[j] EXCEPT !.buffer = r.buffer, !.stack = r.stack,
                                       !.steps = r.steps, !.done = r.done]
                  ELSE [runs[j] EXCEPT !.done = r.done]]
    /\ UNCHANGED <<mode, pc, oracleVars, replayVars, stateVars, vocabVars,
                   treebankVars, orderVars>>

\* a step function mutates the lists and the set of the call that passed
\* them (lines 24-34)
PairApply(i, r) ==
    /\ runs' = [runs EXCEPT ![i] = [@ EXCEPT !.buffer = r.buffer,
                                            !.stack = r.stack,
                                            !.steps = r.steps,
                                            !.done = r.done]]
    /\ UNCHANGED <<mode, pc, oracleVars, replayVars, stateVars, vocabVars,
                   treebankVars, orderVars>>

PairEnd(i, outcome) ==
    /\ runs' = [runs EXCEPT ![i].pc = outcome]
    /\ UNCHANGED <<mode, pc, oracleVars, replayVars, stateVars, vocabVars,
                   treebankVars, orderVars>>

\* lines 77-79
PairLeftArc(i) ==
    LET run == runs[i]
    IN /\ run.pc = "ud_loop"
       /\ LoopCond(run.buffer, run.stack)
       /\ can_LeftArc(run.heads, run.dependents, run.stack, run.done)
       /\ PairApply(i, LeftArc(run.buffer, run.stack, run.steps, run.done))

\* lines 77, 80-81
PairRightArc(i) ==
    LET run == runs[i]
    IN /\ run.pc = "ud_loop"
       /\ LoopCond(run.buffer, run.stack)
       /\ ~can_LeftArc(run.heads, run.dependents, run.stack, run.done)
       /\ can_RightArc(run.heads, run.dependents, run.stack, run.done)
       /\ PairApply(i, RightArc(run.buffer, run.stack, run.steps, run.done))

\* the buffer kept as an unordered collection: any of its tokens is shifted
PairShift_Any(i) ==
    LET run == runs[i]
    IN /\ run.pc = "ud_loop"
       /\ LoopCond(run.buffer, run.stack)
       /\ ~can_LeftArc(run.heads, run.dependents, run.stack, run.done)
       /\ ~can_RightArc(run.heads, run.dependents, run.stack, run.done)
       /\ run.buffer # <<>>
       /\ \E k \in 1..Len(run.buffer) :
             PairApply(i, Shift(<<run.buffer[k]>> \o PopAt(run.buffer, k),
                                run.stack, run.steps, run.done))

\* lines 77, 82-83
PairShift(i) ==
    LET run == runs[i]
    IN /\ run.pc = "ud_loop"
       /\ LoopCond(run.buffer, run.stack)
       /\ ~can_LeftArc(run.heads, run.dependents, run.stack, run.done)
       /\ ~can_RightArc(run.heads, run.dependents, run.stack, run.done)
       /\ run.buffer # <<>>
       /\ PairApply(i, Shift(run.buffer, run.stack, run.steps, run.done))

\* lines 77, 84-85
PairRaise(i) ==
    LET run == runs[i]
    IN /\ run.pc = "ud_loop"
       /\ LoopCond(run.buffer, run.stack)
       /\ ~can_LeftArc(run.heads, run.dependents, run.stack, run.done)
       /\ ~can_RightArc(run.heads, run.dependents, run.stack, run.done)
       /\ run.buffer = <<>>
       /\ PairEnd(i, "ud_raised")

\* lines 77, 87
PairReturn(i) ==
    LET run == runs[i]
    IN /\ run.pc = "ud_loop"
       /\ ~LoopCond(run.buffer, run.stack)
       /\ PairEnd(i, "ud_returned")

PairSet(i, run) ==
    /\ runs' = [runs EXCEPT ![i] = run]
    /\ UNCHANGED <<mode, pc, oracleVars, replayVars, stateVars, vocabVars,
                   treebankVars, orderVars>>

\* the returned steps are replayed on the sentence's word tokens: the call
\* of oracle_to_UD and its set-up (lines 102-110)
PairReplayCall(i) ==
    LET run == runs[i]
    IN /\ run.pc = "ud_returned"
       /\ PairSet(i, [run EXCEPT !.rtokens = IdTokens(run.sentence),
                                 !.actions = StepTags(run.steps),
                                 !.rbuffer = ReInitBuffer(IdTokens(run.sentence)),
                                 !.rstack = <<0>>,
                                 !.arcs = <<>>,
                                 !.ai = 0,
                                 !.pc = "re_loop"])

\* lines 113-114
PairReplayShift(i) ==
    LET run == runs[i]
    IN /\ run.pc = "re_loop" /\ run.ai < Len(run.actions)
       /\ IsShiftTag(run.actions[run.ai + 1])
       /\ run.rbuffer # <<>>
       /\ PairSet(i, [run EXCEPT !.rstack = Append(run.rstack, Head(run.rbuffer)),
                                 !.rbuffer = Tail(run.rbuffer),
                                 !.ai = run.ai + 1])

\* lines 115-119
PairReplayLeftArc(i) ==
    LET run == runs[i]
    IN /\ run.pc = "re_loop" /\ run.ai < Len(run.actions)
       /\ ~IsShiftTag(run.actions[run.ai + 1])
       /\ IsLeftArcTag(run.actions[run.ai + 1])
       /\ Len(run.rstack) >= 2
       /\ PairSet(i, [run EXCEPT !.arcs = Append(run.arcs, ReLeftArcArc(run.rstack)),
                                 !.rstack = ReLeftArcStack(run.rstack),
                                 !.ai = run.ai + 1])

\* lines 120-124
PairReplayRightArc(i) ==
    LET run == runs[i]
    IN /\ run.pc = "re_loop" /\ run.ai < Len(run.actions)
       /\ ~IsShiftTag(run.actions[run.ai + 1])
       /\ ~IsLeftArcTag(run.actions[run.ai + 1])
       /\ IsRightArcTag(run.actions[run.ai + 1])
       /\ Len(run.rstack) >= 2
       /\ PairSet(i, [run EXCEPT !.arcs = Append(run.arcs, ReRightArcArc(run.rstack)),
                                 !.rstack = ReRightArcStack(run.rstack),
                                 !.ai = run.ai + 1])

\* lines 128-136
PairReplayReturn(i) ==
    LET run == runs[i]
    IN /\ run.pc = "re_loop" /\ run.ai = Len(run.actions)
       /\ PairSet(i, [run EXCEPT !.result = AssignHeads(run.rtokens, run.arcs),
                                 !.pc = "re_returned"])

\* the scheduler lets either run take its next step; the steps UD_to_oracle
\* returns hold only the three known tags and never pop from an empty buffer
\* or a one-element stack, so the raising branches of oracle_to_UD (lines
\* 114, 117, 121, 126) have no step here
NextPair ==
    \E i \in 1..2 :
       \/ PairLeftArc(i)
       \/ PairRightArc(i)
       \/ PairShift(i)
       \/ PairRaise(i)
       \/ PairReturn(i)
       \/ PairReplayCall(i)
       \/ PairReplayShift(i)
       \/ PairReplayLeftArc(i)
       \/ PairReplayRightArc(i)
       \/ PairReplayReturn(i)

SpecPair == InitPair /\ [][NextPair]_vars

-----------------------------------------------------------------------------
(* Equality, hash and order of the Transition classes (parse_transitions.py) *)
(* and all_transitions (transition_sequence.py 156-163)                      *)

\* an instance with its identity: two instances of a class are two objects
Instance(cls, oid) == [cls |-> cls, oid |-> oid]

Instances == {Instance(c, k) : c \in TransitionNames, k \in 1..2}

\* __hash__ (215-216, 258-259, 301-302): hash of a small int is the int
TransHash(self) ==
    CASE self.cls = "Shift" -> 37
      [] self.cls = "LeftArc" -> 17
      [] self.cls = "RightArc" -> 71

\* __repr__ (205-206, 248-249, 291-292), which str() falls back to
TransRepr(self) ==
    CASE self.cls = "Shift" -> <<"S", "h", "i", "f", "t">>
      [] self.cls = "LeftArc" -> <<"L", "e", "f", "t", "A", "r", "c">>
      [] self.cls = "RightArc" -> <<"R", "i", "g", "h", "t", "A", "r", "c">>

\* code point of a character
Ord(ch) ==
    CASE ch = "A" -> 65 [] ch = "L" -> 76 [] ch = "R" -> 82 [] ch = "S" -> 83
      [] ch = "c" -> 99 [] ch = "e" -> 101 [] ch = "f" -> 102
      [] ch = "g" -> 103 [] ch = "h" -> 104 [] ch = "i" -> 105
      [] ch = "r" -> 114 [] ch = "t" -> 116

\* str < str: lexicographic by code point, a proper prefix first
RECURSIVE StrLess(_, _)
StrLess(a, b) ==
    IF b = <<>> THEN FALSE
    ELSE IF a = <<>> THEN TRUE
    ELSE IF Ord(Head(a)) # Ord(Head(b)) THEN Ord(Head(a)) < Ord(Head(b))
    ELSE StrLess(Tail(a), Tail(b))

\* __lt__ without the Shift rule: by name alone
TransLt_ByName(self, oth) ==
    IF TransEq(self, oth) THEN FALSE
    ELSE StrLess(TransRepr(self), TransRepr(oth))

\* Transition.__lt__ (132-140)
TransLt(self, oth) ==
    IF TransEq(self, oth) THEN FALSE
    ELSE IF self.cls = "Shift" THEN TRUE
    ELSE IF oth.cls = "Shift" THEN FALSE
    ELSE StrLess(TransRepr(self), TransRepr(oth))

\* set.add: an element that has the hash of, and equals, one already in the
\* set is not added (the set is kept as the list of the elements added)
SetAdd(set, x) ==
    IF \E i \in 1..Len(set) :
          TransHash(set[i]) = TransHash(x) /\ TransEq(set[i], x)
    THEN set
    ELSE Append(set, x)

\* set.update(trans_list) (line 162)
RECURSIVE SetUpdate(_, _)
SetUpdate(set, trans_list) ==
    IF trans_list = <<>> THEN set
    ELSE SetUpdate(SetAdd(set, Head(trans_list)), Tail(trans_list))

\* sorted() compares with __lt__ only: x goes before the first element it
\* is less than
RECURSIVE InsertSorted(_, _)
InsertSorted(sorted, x) ==
    IF sorted = <<>> THEN <<x>>
    ELSE IF TransLt(x, Head(sorted)) THEN <<x>> \o sorted
    ELSE <<Head(sorted)>> \o InsertSorted(Tail(sorted), x)

RECURSIVE Sorted(_)
Sorted(l) ==
    IF l = <<>> THEN <<>>
    ELSE InsertSorted(Sorted(SubSeq(l, 1, Len(l) - 1)), l[Len(l)])

\* lines 160-162
RECURSIVE UpdateAll(_, _)
UpdateAll(set, lists) ==
    IF lists = <<>> THEN set
    ELSE UpdateAll(SetUpdate(set, Head(lists)), Tail(lists))

\* all_transitions (156-163)
all_transitions(lists) == Sorted(UpdateAll(<<>>, lists))

\* all_transitions about to run on two transition lists
InitOrder ==
    /\ mode = "order"
    /\ pc = "all_call"
    /\ \E k \in 0..MaxVocab : \E flat \in [1..k -> Instances] :
          \E j \in 0..k :
             transition_lists = <<SubSeq(flat, 1, j), SubSeq(flat, j + 1, k)>>
    /\ vocabulary = Idle
    /\ OracleIdle /\ ReplayIdle /\ StateIdle /\ VocabIdle
    /\ TreebankIdle /\ PairIdle

AllTransitions ==
    /\ pc = "all_call"
    /\ vocabulary' = all_transitions(transition_lists)
    /\ pc' = "all_returned"
    /\ UNCHANGED <<mode, oracleVars, replayVars, stateVars, vocabVars,
                   treebankVars, pairVars, transition_lists>>

NextOrder == AllTransitions

SpecOrder == InitOrder /\ [][NextOrder]_vars

-----------------------------------------------------------------------------
(* Dependency trees: the vocabulary of the properties below *)

\* the words of the input sentence and their gold heads, as ints
Words == WordToks(sentence)
NWords == Cardinality(DOMAIN heads)
Gold(i) == heads[i]

\* following heads from token i for at most k arcs arrives at ROOT
RECURSIVE ReachesRoot(_, _)
ReachesRoot(i, k) ==
    IF i = 0 THEN TRUE
    ELSE IF k = 0 \/ i \notin 1..NWords THEN FALSE
    ELSE ReachesRoot(Gold(i), k - 1)

\* every token has one head among ROOT and the tokens, and reaches ROOT
IsTree == \A i \in 1..NWords : Gold(i) \in 0..NWords /\ ReachesRoot(i, NWords)

Lo(a, b) == IF a < b THEN a ELSE b
Hi(a, b) == IF a < b THEN b ELSE a

\* the arcs head(i) -> i and head(j) -> j, ROOT at position 0, cross
Cross(i, j) ==
    /\ Lo(i, Gold(i)) < Lo(j, Gold(j))
    /\ Lo(j, Gold(j)) < Hi(i, Gold(i))
    /\ Hi(i, Gold(i)) < Hi(j, Gold(j))

HasCrossing == \E i, j \in 1..NWords : Cross(i, j)

IsProjectiveTree == IsTree /\ ~HasCrossing

\* UD_to_oracle has returned its steps
OracleReturned ==
    /\ mode = "roundtrip"
    /\ pc \in {"ud_returned", "re_call", "re_loop", "re_returned",
               "re_invalid", "re_index_error"}

CountTags(tags, which) == Cardinality({i \in 1..Len(tags) : tags[i] \in which})

ArcTags == {"LEFTARC", "RIGHTARC"}

-----------------------------------------------------------------------------
(* Properties *)

\* C1: round trip. For a projective tree neither function fails, and the
\* token list oracle_to_UD returns for the tags of UD_to_oracle's steps gives
\* every token the head field (and id) it had in the input.
RoundTripHeads ==
    (mode = "roundtrip" /\ IsProjectiveTree) =>
        /\ pc \notin {"ud_raised", "re_invalid", "re_index_error"}
        /\ pc = "re_returned" =>
              /\ Len(result) = NWords
              /\ \A i \in 1..NWords :
                    /\ result[i].id = Words[i].id
                    /\ result[i].head = Words[i].head

\* a projective tree with a left arc and a right arc below ROOT went round
RoundTripDone ==
    /\ mode = "roundtrip" /\ pc = "re_returned"
    /\ IsProjectiveTree /\ NWords >= 3
    /\ \E i, j \in 1..NWords : Gold(i) > i /\ Gold(j) \in 1..(j - 1)
    /\ \A i \in 1..NWords : result[i].head = Words[i].head

\* C2: on a projective tree of N words UD_to_oracle never raises, never holds
\* more than 2N steps, and returns exactly 2N steps, N of them SHIFT and N
\* of them arcs; for N >= 1 the last step is RIGHTARC on stack [ROOT, x]
\* with the buffer empty.
OracleStepCount ==
    (mode = "roundtrip" /\ IsProjectiveTree) =>
        /\ pc # "ud_raised"
        /\ Len(steps) <= 2 * NWords
        /\ OracleReturned =>
              /\ Len(steps) = 2 * NWords
              /\ CountTags(StepTags(steps), {"SHIFT"}) = NWords
              /\ CountTags(StepTags(steps), ArcTags) = NWords
              /\ NWords >= 1 =>
                    LET last == steps[Len(steps)]
                    IN /\ last[1] = <<>>
                       /\ Len(last[2]) = 2
                       /\ last[2][1] = 0
                       /\ last[3] = "RIGHTARC"

\* a projective tree of at least 3 words has been converted
OracleStepCountDone ==
    /\ mode = "roundtrip" /\ pc = "ud_returned"
    /\ IsProjectiveTree /\ NWords >= 3
    /\ Len(steps) = 2 * NWords

\* C3: a tree rooted at ROOT with a pair of crossing arcs is never converted:
\* the run is in the loop (with fewer than 2N steps) or has raised.
NonProjectiveRaises ==
    (mode = "roundtrip" /\ IsTree /\ HasCrossing) =>
        /\ pc \in {"ud_loop", "ud_raised"}
        /\ Len(steps) < 2 * NWords

\* a tree whose crossing arcs both lie below ROOT has made the oracle raise
NonProjectiveRaised ==
    /\ mode = "roundtrip" /\ pc = "ud_raised"
    /\ IsTree
    /\ \E i, j \in 1..NWords : Cross(i, j) /\ Gold(i) # 0 /\ Gold(j) # 0

\* the example sentence [ROOT, t1, t2, t3]: head(t1)=t3, head(t2)=t3,
\* head(t3)=ROOT
ExampleSentence ==
    <<[id |-> <<"1">>, head |-> <<"3">>],
      [id |-> <<"2">>, head |-> <<"3">>],
      [id |-> <<"3">>, head |-> <<"0">>]>>

ExampleActions == <<"SHIFT", "SHIFT", "LEFTARC", "SHIFT", "LEFTARC">>

\* C4 as stated: the example sentence yields
\* [Shift, Shift, LeftArc, Shift, LeftArc].
ExampleOracleAsStated ==
    (OracleReturned /\ sentence = ExampleSentence) =>
        StepTags(steps) = ExampleActions

\* C4, amended: the example sentence is converted without error and yields
\* [Shift, Shift, Shift, LeftArc, LeftArc, RightArc].
ExampleOracle ==
    (mode = "roundtrip" /\ sentence = ExampleSentence) =>
        /\ pc # "ud_raised"
        /\ OracleReturned =>
              StepTags(steps) =
                <<"SHIFT", "SHIFT", "SHIFT", "LEFTARC", "LEFTARC", "RIGHTARC">>

ExampleOracleDone ==
    /\ mode = "roundtrip" /\ pc = "ud_returned"
    /\ sentence = ExampleSentence

ResultHeads == [i \in 1..Len(result) |-> result[i].head]

\* C5 as stated: replaying [Shift, Shift, LeftArc, Shift, LeftArc] on
\* t1, t2, t3 gives head(t1)=t3, head(t2)=t3, head(t3)=0.
ExampleReplayAsStated ==
    (mode = "replay" /\ pc = "re_returned"
        /\ rtokens = PlainTokens(3) /\ actions = ExampleActions) =>
        ResultHeads = <<<<"3">>, <<"3">>, <<"0">>>>

\* C5, amended: the replay ends without error and gives head(t1)=t2,
\* head(t2)=t3, head(t3)=0.
ExampleReplay ==
    (mode = "replay" /\ rtokens = PlainTokens(3) /\ actions = ExampleActions) =>
        /\ pc \notin {"re_invalid", "re_index_error"}
        /\ pc = "re_returned" => ResultHeads = <<<<"2">>, <<"3">>, <<"0">>>>

ExampleReplayDone ==
    /\ mode = "replay" /\ pc = "re_returned"
    /\ rtokens = PlainTokens(3) /\ actions = ExampleActions

KnownTags == {"SHIFT", "LEFTARC", "RIGHTARC"}

HasUnknownTag == \E i \in 1..Len(actions) : actions[i] \notin KnownTags

\* C9: oracle_to_UD stops with the invalid-action error only at the first
\* tag outside SHIFT/LEFTARC/RIGHTARC, with exactly the tags before it
\* applied and nothing returned; a list holding such a tag is never replayed
\* past it and never yields a head assignment.
InvalidTagFailsFast ==
    (pc \in {"re_loop", "re_invalid", "re_index_error", "re_returned"}) =>
        /\ \A i \in 1..ai : actions[i] \in KnownTags
        /\ HasUnknownTag => (pc # "re_returned" /\ result = Idle)
        /\ pc = "re_invalid" =>
              /\ ai < Len(actions)
              /\ actions[ai + 1] \notin KnownTags
              /\ CountTags(SubSeq(actions, 1, ai), ArcTags) = Len(arcs)
              /\ CountTags(SubSeq(actions, 1, ai), {"SHIFT"})
                    = Len(rtokens) - Len(rbuffer)
              /\ result = Idle

\* an unknown tag was met after a shift and an arc had been applied
InvalidTagRaised ==
    /\ pc = "re_invalid"
    /\ ai >= 2 /\ Len(arcs) >= 1
    /\ ai + 1 < Len(actions)

WireNames == {"Shift", "LeftArc", "RightArc"}

\* C10 as stated: "Shift", "LeftArc", "RightArc" are the tags of every
\* component: UD_to_oracle records only these names, oracle_to_UD does not
\* reject one of them as invalid, and from_repr decodes each to the equal
\* transition.
WireFormatShared ==
    /\ mode = "roundtrip" =>
          \A i \in 1..Len(steps) : steps[i][3] \in WireNames
    /\ pc = "re_invalid" => actions[ai + 1] \notin WireNames
    /\ \A n \in WireNames :
          /\ from_repr(n) # NoTransition
          /\ TransEq(NewTransition(n), from_repr(n))

\* C6 as stated: LeftArc.is_legal and RightArc.is_legal do not answer True
\* on a stack of fewer than 2 elements and answer True on one of at least 2.
ArcLegalitySound ==
    mode = "state" =>
        /\ num_stacks(st) < 2 =>
              (LeftArc_is_legal(st) # "True" /\ RightArc_is_legal(st) # "True")
        /\ num_stacks(st) >= 2 =>
              (LeftArc_is_legal(st) = "True" /\ RightArc_is_legal(st) = "True")

\* C7 as stated: Shift.is_legal answers, and answers False exactly when
\* word_position equals sentence_length.
ShiftLegalitySound ==
    mode = "state" =>
        /\ Shift_is_legal(st) \in {"True", "False"}
        /\ Shift_is_legal(st) = "False" <=> st.word_position = st.sentence_length

\* transitions of other absent from train, by what their components are
AbsentFrom(tr) == {i \in 1..Len(other) : ~TransIn(other[i], tr)}

AllComponentsIn(t, tr) ==
    \A i \in 1..Len(components(t)) : TransIn(components(t)[i], tr)

ErrorIsolation ==
    mode = "treebank" =>
        /\ pc # "tb_raised"
        /\ pc = "tb_returned" => Len(sequences) = Len(trees)

\* iterations the while loop of UD_to_oracle has entered: one per recorded
\* step, and the one that raised
OracleIterations == Len(steps) + (IF pc = "ud_raised" THEN 1 ELSE 0)

\* iterations the for loop of oracle_to_UD has entered: one per applied
\* action, and the one that raised
ReplayIterations ==
    ai + (IF pc \in {"re_invalid", "re_index_error"} THEN 1 ELSE 0)

\* C12: on any head assignment over N tokens the loop of UD_to_oracle enters
\* at most 2N+1 iterations before it returns or raises, and on any action
\* sequence the loop of oracle_to_UD enters at most 2N+1 iterations before it
\* finishes or fails
StepBound ==
    /\ (mode = "roundtrip" /\ pc \in {"ud_loop", "ud_returned", "ud_raised"})
          => OracleIterations <= 2 * NWords + 1
    /\ pc \in {"re_loop", "re_returned", "re_invalid", "re_index_error"}
          => ReplayIterations <= 2 * Len(rtokens) + 1

\* an action list longer than 2N+1 whose applied prefix uses up the whole
\* sentence and whose next action fails, and an oracle run that raised after
\* shifting every token
StepBoundReached ==
    \/ /\ mode = "replay" /\ pc = "re_index_error"
       /\ Len(rtokens) >= 1
       /\ Len(actions) > 2 * Len(rtokens) + 1
       /\ ReplayIterations = 2 * Len(rtokens) + 1
    \/ /\ mode = "roundtrip" /\ pc = "ud_raised"
       /\ NWords >= 2
       /\ OracleIterations > NWords

IsPrefix(p, q) == Len(p) <= Len(q) /\ SubSeq(q, 1, Len(p)) = p

PairEnded(run) == run.pc \in {"ud_raised", "re_returned"}

\* C13: two runs (oracle construction, then reconstruction) on sentences of
\* their own, interleaved in any order, each produce what they produce alone:
\* at every point the steps and the arcs a run has recorded are the first
\* steps and arcs of its run alone, and it ends as its run alone ends, with
\* the same steps, arcs and heads
NonInterference ==
    mode = "pair" =>
        \A i \in 1..2 :
           /\ IsPrefix(runs[i].steps, runs[i].alone.steps)
           /\ runs[i].arcs # Idle => IsPrefix(runs[i].arcs, runs[i].alone.arcs)
           /\ PairEnded(runs[i]) =>
                 /\ runs[i].steps = runs[i].alone.steps
                 /\ runs[i].arcs = runs[i].alone.arcs
                 /\ runs[i].result = runs[i].alone.result
                 /\ runs[i].pc = runs[i].alone.pc

\* two different sentences both run to their end: one converted and
\* reconstructed, the other raised after recording steps
NonInterferenceDone ==
    /\ mode = "pair"
    /\ runs[1].sentence # runs[2].sentence
    /\ runs[1].pc = "re_returned" /\ Len(runs[1].arcs) = MaxPairN
    /\ runs[2].pc = "ud_raised" /\ Len(runs[2].steps) >= 2

Given ==
    UNION {{transition_lists[k][i] : i \in 1..Len(transition_lists[k])} :
           k \in 1..Len(transition_lists)}

\* Shift, LeftArc, RightArc: the order the vocabulary is to come out in
CanonicalOrder == <<"Shift", "LeftArc", "RightArc">>

\* C15: equality and order of transitions are structural: two instances of a
\* variant are equal and hash alike, instances of different variants are
\* unequal, < is a strict total order on the variants with Shift first and
\* LeftArc before RightArc, and the sorted vocabulary of any collection is
\* its variants in the order Shift, LeftArc, RightArc, each once
TransitionOrder ==
    mode = "order" =>
        /\ \A a \in Given : \A b \in Given :
              /\ a.cls = b.cls => (TransEq(a, b) /\ TransHash(a) = TransHash(b))
              /\ a.cls # b.cls => ~TransEq(a, b)
              /\ ~(TransLt(a, b) /\ TransLt(b, a))
              /\ TransEq(a, b) \/ TransLt(a, b) \/ TransLt(b, a)
              /\ TransEq(a, b) => ~TransLt(a, b)
              /\ a.cls = "Shift" /\ b.cls # "Shift" => TransLt(a, b)
              /\ a.cls = "LeftArc" /\ b.cls = "RightArc" => TransLt(a, b)
              /\ \A c \in Given : TransLt(a, b) /\ TransLt(b, c) => TransLt(a, c)
        /\ pc = "all_returned" =>
              [i \in 1..Len(vocabulary) |-> vocabulary[i].cls]
                 = SelectSeq(CanonicalOrder,
                             LAMBDA c : \E t \in Given : t.cls = c)

\* a collection that holds the three variants out of order, Shift twice
TransitionOrderDone ==
    /\ mode = "order"
    /\ pc = "all_returned"
    /\ Len(transition_lists[1]) = 1 /\ transition_lists[1][1].cls = "RightArc"
    /\ Len(transition_lists[2]) = 2
    /\ transition_lists[2][1].cls = "Shift"
    /\ transition_lists[2][2].cls = "LeftArc"
    /\ Len(vocabulary) = MaxVocab

OracleRunning == pc \in {"ud_loop", "ud_returned", "ud_raised"}

\* C16: in every state UD_to_oracle reaches on any head assignment the stack
\* is non-empty with ROOT (0) at its bottom, as it was before every recorded
\* step; ROOT is never popped by LeftArc or RightArc; and the call returns
\* normally exactly when the buffer is empty and the stack is [ROOT]
OracleStackInvariant ==
    OracleRunning =>
        /\ Len(stack) >= 1 /\ stack[1] = 0
        /\ \A k \in 1..Len(steps) : Len(steps[k][2]) >= 1 /\ steps[k][2][1] = 0
        /\ 0 \notin done
        /\ \A k \in 2..Len(stack) : stack[k] # 0
        /\ pc = "ud_loop" => (~LoopCond(buffer, stack)
                                 <=> (buffer = <<>> /\ stack = <<0>>))
        /\ pc = "ud_returned" => (buffer = <<>> /\ stack = <<0>>)
        /\ pc = "ud_raised" => ~(buffer = <<>> /\ stack = <<0>>)

\* a sentence converted to its end in which a LEFTARC was taken over two
\* words on top of ROOT and a RIGHTARC popped the word on top of [ROOT, x]
OracleStackInvariantDone ==
    /\ mode = "roundtrip"
    /\ pc = "ud_returned"
    /\ \E k \in 1..Len(steps) : steps[k][3] = "LEFTARC" /\ Len(steps[k][2]) = 3
    /\ \E k \in 1..Len(steps) : steps[k][3] = "RIGHTARC" /\ Len(steps[k][2]) = 2
    /\ Cardinality(done) = NWords

ReplayRunning == pc \in {"re_loop", "re_returned", "re_invalid", "re_index_error"}

\* C17: oracle_to_UD never records an arc with ROOT (0) as dependent and
\* ROOT never leaves its stack: a LEFTARC met on a stack [ROOT, x] is not
\* applied, and after every applied action the stack still has ROOT at its
\* base
RootStaysOnStack ==
    ReplayRunning =>
        /\ Len(rstack) >= 1 /\ rstack[1] = 0
        /\ \A k \in 1..Len(arcs) : arcs[k][2] # 0

ArcDependents == {arcs[k][2] : k \in 1..Len(arcs)}

\* C18: in oracle_to_UD, on any action sequence, no token id is the
\* dependent of more than one recorded arc; and when the complete oracle
\* sequence of a projective tree of N tokens has been replayed the arcs are
\* exactly N, one for every non-ROOT token
SingleHead ==
    /\ ReplayRunning =>
          \A i \in 1..Len(arcs) : \A j \in 1..Len(arcs) :
             i # j => arcs[i][2] # arcs[j][2]
    /\ (mode = "roundtrip" /\ pc = "re_returned" /\ IsProjectiveTree) =>
          /\ Len(arcs) = NWords
          /\ ArcDependents = 1..NWords

\* the oracle sequence of a projective tree of MaxN tokens replayed to its
\* end
SingleHeadDone ==
    /\ mode = "roundtrip"
    /\ pc = "re_returned"
    /\ IsProjectiveTree
    /\ NWords = MaxN
    /\ Len(arcs) = MaxN

\* the buffer is used up and the stack holds ROOT alone (above the sentinel)
IsTerminal(state) ==
    /\ state.word_position = state.sentence_length
    /\ state.stacks = TS_push(TS_new, 0)

\* C19: State.finished is true exactly when the buffer is empty and the
\* stack contains only ROOT, and false in every other reachable State
FinishedExact ==
    mode = "state" =>
        finished(st) = (IF IsTerminal(st) THEN "True" ELSE "False")

\* the step an iteration has just recorded
NewStep == steps'[Len(steps')]

\* C20: oracle priority: every iteration of UD_to_oracle records and applies
\* exactly one action or raises; the action is LEFTARC where the LeftArc
\* condition holds, RIGHTARC only where the LeftArc condition is false and
\* the RightArc condition holds, SHIFT only where both are false and the
\* buffer is non-empty; and the error is raised only where both are false
\* and the buffer is empty
OraclePriority ==
    [][(mode = "roundtrip" /\ pc = "ud_loop") =>
          LET canL == can_LeftArc(heads, dependents, stack, done)
              canR == can_RightArc(heads, dependents, stack, done)
          IN /\ pc' = "ud_loop" =>
                   /\ Len(steps') = Len(steps) + 1
                   /\ SubSeq(steps', 1, Len(steps)) = steps
                   /\ NewStep[1] = buffer /\ NewStep[2] = stack
                   /\ NewStep[3] \in {"LEFTARC", "RIGHTARC", "SHIFT"}
                   /\ NewStep[3] = "LEFTARC" <=> canL
                   /\ NewStep[3] = "RIGHTARC" <=> (~canL /\ canR)
                   /\ NewStep[3] = "SHIFT" <=> (~canL /\ ~canR)
                   /\ NewStep[3] = "SHIFT" => buffer # <<>>
                   /\ NewStep[3] = "LEFTARC" =>
                         (buffer' = buffer /\ stack' = PopAt(stack, Len(stack) - 1))
                   /\ NewStep[3] = "RIGHTARC" =>
                         (buffer' = buffer /\ stack' = PopAt(stack, Len(stack)))
                   /\ NewStep[3] = "SHIFT" =>
                         (buffer' = Tail(buffer) /\ stack' = Append(stack, Head(buffer)))
             /\ pc' = "ud_raised" =>
                   (~canL /\ ~canR /\ buffer = <<>> /\ steps' = steps)
             /\ pc' = "ud_returned" => steps' = steps
      ]_vars

\* a run that recorded all three actions and returned, the words on the
\* stack having waited for a later word to be shifted
OraclePriorityDone ==
    /\ mode = "roundtrip"
    /\ pc = "ud_returned"
    /\ \A tag \in {"LEFTARC", "RIGHTARC", "SHIFT"} :
          \E k \in 1..Len(steps) : steps[k][3] = tag
    /\ \E k \in 1..Len(steps) : steps[k][3] = "SHIFT" /\ Len(steps[k][2]) = MaxN

\* the tokens whose gold head is x
GoldDependents(x) == {d \in DOMAIN heads : Gold(d) = x}

\* C21: subtree closure: in every UD_to_oracle run, when a token is removed
\* from the stack by LeftArc or RightArc and added to done, every gold
\* dependent of that token is already in done and the stack element it is
\* reduced against, which the step leaves on top, is its gold head
SubtreeClosure ==
    [][(mode = "roundtrip" /\ pc = "ud_loop" /\ done' # done) =>
          \E x \in DOMAIN heads :
             /\ x \notin done
             /\ done' = done \cup {x}
             /\ \E k \in 1..Len(stack) : stack[k] = x
             /\ \A k \in 1..Len(stack') : stack'[k] # x
             /\ GoldDependents(x) \subseteq done
             /\ stack'[Len(stack')] = Gold(x)
      ]_vars

\* a run that returned after reducing a token with two gold dependents and
\* a token whose dependent has a dependent of its own
SubtreeClosureDone ==
    /\ mode = "roundtrip"
    /\ pc = "ud_returned"
    /\ \E x \in DOMAIN heads : Cardinality(GoldDependents(x)) = 2
    /\ \E x \in DOMAIN heads : \E d \in GoldDependents(x) : GoldDependents(d) # {}
    /\ done = DOMAIN heads

\* the stack of a State as the list oracle_to_UD keeps: bottom first, ROOT
\* at the base, no sentinel
StackList(state) == Tail(state.stacks)

\* the State after a transition whose update_state returned u
AfterUpdate(state, cls, u) == ApplyUpdate(state, NewTransition(cls), u)

\* C22: the class operators agree with the reconstructor: on every State
\* with at least 2 stack elements LeftArc.update_state and
\* RightArc.update_state return, and the State built from what they return
\* has the stack and the new arc of the LEFTARC, respectively RIGHTARC, branch
\* of oracle_to_UD on the same stack: one element fewer, one arc more
ClassOperatorsAgree ==
    (mode = "state" /\ num_stacks(st) >= 2) =>
        /\ ~LeftArc_update_raises(st)
        /\ StackList(AfterUpdate(st, "LeftArc", LeftArc_update_state(st)))
              = ReLeftArcStack(StackList(st))
        /\ AfterUpdate(st, "LeftArc", LeftArc_update_state(st)).created_arcs
              = Append(st.created_arcs, ReLeftArcArc(StackList(st)))
        /\ ~RightArc_update_raises(st)
        /\ StackList(AfterUpdate(st, "RightArc", RightArc_update_state(st)))
              = ReRightArcStack(StackList(st))
        /\ AfterUpdate(st, "RightArc", RightArc_update_state(st)).created_arcs
              = Append(st.created_arcs, ReRightArcArc(StackList(st)))

\* the class of the transition that led to the State
LastTransition(state) == state.transitions[Len(state.transitions)].cls

\* the next unconsumed token: word_queue[word_position], counted from 0
NextWord(state) == state.word_queue[state.word_position + 1]

\* C23: Shift pushes the next unconsumed token word_queue[word_position] on
\* top of the stack, increases word_position by exactly 1 and leaves
\* created_arcs and the rest of the stack unchanged; LeftArc and RightArc
\* leave word_position and the word queue unchanged; so word_position never
\* decreases and a token pushed comes after every token pushed before it
ShiftFrame ==
    [][mode = "state" =>
          /\ LastTransition(st') = "Shift" =>
                /\ st'.word_position = st.word_position + 1
                /\ st'.stacks = Append(st.stacks, NextWord(st))
                /\ st'.constituents = Append(st.constituents, NextWord(st))
                /\ st'.created_arcs = st.created_arcs
                /\ \A k \in 2..Len(st.stacks) : st.stacks[k] < NextWord(st)
          /\ LastTransition(st') \in {"LeftArc", "RightArc"} =>
                st'.word_position = st.word_position
          /\ st'.word_queue = st.word_queue
          /\ st'.sentence_length = st.sentence_length
          /\ st'.word_position >= st.word_position
          /\ Len(st'.transitions) = Len(st.transitions) + 1
      ]_vars

\* a State reached by Shift, LeftArc and RightArc with every word consumed
ShiftFrameDone ==
    /\ mode = "state"
    /\ st.word_position = st.sentence_length
    /\ st.sentence_length = MaxN + 1
    /\ \A cls \in {"Shift", "LeftArc", "RightArc"} :
          \E k \in 2..Len(st.transitions) : st.transitions[k].cls = cls

\* C24: default attachment: when oracle_to_UD has replayed an action
\* sequence it accepts, complete or not, it returns the tokens it was given,
\* in order; every token that is the dependent of no recorded arc gets head
\* "0" and every other token the head of its recorded arc
DefaultAttachment ==
    pc = "re_returned" =>
        /\ Len(result) = Len(rtokens)
        /\ \A i \in 1..Len(result) :
              /\ result[i].id = rtokens[i].id
              /\ \A k \in 1..Len(arcs) :
                    arcs[k][2] = StrToInt(rtokens[i].id)
                       => result[i].head = IntToStr(arcs[k][1])
              /\ (\A k \in 1..Len(arcs) : arcs[k][2] # StrToInt(rtokens[i].id))
                    => result[i].head = <<"0">>

\* a sequence that stops early: one token has its arc, one is still on the
\* stack and one still in the buffer, the last two returned with head "0"
DefaultAttachmentDone ==
    /\ mode = "replay"
    /\ pc = "re_returned"
    /\ Len(arcs) >= 1
    /\ Len(rstack) >= 2
    /\ rbuffer # <<>>
    /\ \E i \in 1..Len(result) :
          /\ StrToInt(result[i].id) = rstack[Len(rstack)]
          /\ result[i].head = <<"0">>
    /\ \E i \in 1..Len(result) :
          /\ StrToInt(result[i].id) = Head(rbuffer)
          /\ result[i].head = <<"0">>
    /\ \E i \in 1..Len(result) : result[i].head # <<"0">>

SeqElems(l) == {l[k] : k \in 1..Len(l)}

NoRepeat(l) == \A i \in 1..Len(l) : \A j \in 1..Len(l) : i # j => l[i] # l[j]

\* the buffer UD_to_oracle started from: the one its first step recorded
OriginalBuffer == IF steps = <<>> THEN buffer ELSE steps[1][1]

\* C25: in every state UD_to_oracle reaches on any head assignment the
\* buffer, the stack above ROOT and the done set are pairwise disjoint and
\* hold every non-ROOT token exactly once; the buffer is a suffix of the
\* original token order; the stack ids increase strictly from bottom to top
\* and every stack id is smaller than every buffer id
OraclePartition ==
    (mode = "roundtrip" /\ OracleRunning) =>
        /\ NoRepeat(buffer) /\ NoRepeat(stack)
        /\ SeqElems(buffer) \cap SeqElems(Tail(stack)) = {}
        /\ SeqElems(buffer) \cap done = {}
        /\ SeqElems(Tail(stack)) \cap done = {}
        /\ SeqElems(buffer) \cup SeqElems(Tail(stack)) \cup done = DOMAIN heads
        /\ SeqElems(OriginalBuffer) = DOMAIN heads
        /\ Len(OriginalBuffer) = NWords
        /\ buffer = SubSeq(OriginalBuffer, NWords - Len(buffer) + 1, NWords)
        /\ \A i \in 1..Len(stack) : \A j \in 1..Len(stack) :
              i < j => stack[i] < stack[j]
        /\ \A i \in 1..Len(stack) : \A j \in 1..Len(buffer) :
              stack[i] < buffer[j]

\* a state in the middle of a run: tokens left in the buffer, two words
\* above ROOT on the stack and a token already done
OraclePartitionMidRun ==
    /\ mode = "roundtrip"
    /\ pc = "ud_loop"
    /\ NWords = MaxN
    /\ buffer # <<>>
    /\ Len(stack) = 3
    /\ done # {}

\* token i lies on a cycle of gold arcs (a self-loop is a cycle of one arc)
OnCycle(i) ==
    \E k \in 1..NWords :
       \E p \in [0..k -> 1..NWords] :
          /\ p[0] = i /\ p[k] = i
          /\ \A m \in 0..(k - 1) : Gold(p[m]) = p[m + 1]

\* C26: oracle soundness on arbitrary input: on every head assignment over
\* N tokens UD_to_oracle raises or returns; when it has returned, no token
\* had an absent head, a head of its own or a place on a cycle, no two arcs
\* cross with ROOT at position 0, so the input is a projective tree rooted
\* at ROOT; and the replay of the returned sequence by oracle_to_UD does not
\* fail and gives every token exactly the head it had in the input
OracleSound ==
    OracleReturned =>
        /\ \A i \in 1..NWords :
              /\ Gold(i) # -1
              /\ Gold(i) # i
              /\ ~OnCycle(i)
              /\ Gold(i) \in 0..NWords
        /\ ~HasCrossing
        /\ IsProjectiveTree
        /\ pc \notin {"re_invalid", "re_index_error"}
        /\ pc = "re_returned" =>
              /\ [i \in 1..Len(result) |-> result[i].head]
                    = [i \in 1..NWords |-> Words[i].head]
              /\ \A i \in 1..NWords : Words[i].head # None

\* a sentence of MaxN tokens, two of them headed by ROOT, converted and
\* replayed to its end
OracleSoundDone ==
    /\ mode = "roundtrip"
    /\ pc = "re_returned"
    /\ NWords = MaxN
    /\ Cardinality(GoldDependents(0)) >= 2
    /\ \E i \in 1..NWords : Gold(i) # 0

====
